---- MODULE Spec2Model ----
(***************************************************************************)
(* A model of chefint.py, an interpreter for the esolang Chef.             *)
(*                                                                         *)
(* Python objects are modelled as a heap.  An ingredient is a mutable list *)
(* [value, kind, name]: a cell of `heap`.  A mixing bowl or baking dish is *)
(* a mutable list of references to such cells: an entry of `lists`.  The   *)
(* attributes mixing_bowls and baking_dishes are dictionaries from a       *)
(* number to a list object: an entry of `dicts`.  A Chef instance is a     *)
(* frame of `chefs`; an auxiliary recipe runs in a second frame.           *)
(*                                                                         *)
(* The recipe text is the input.  Its method lines are drawn one by one,   *)
(* when the driver reaches them: every line is parsed at most once by a    *)
(* Chef instance, so drawing a line when it is executed is the same as     *)
(* fixing the whole method beforehand.  What a later line must be (the     *)
(* terminator of a loop that was opened) is remembered in the frame.       *)
(***************************************************************************)
EXTENDS Integers, Sequences, FiniteSets, TLC

\* ---------------------------------------------------------------- bounds
MaxLines == 3        \* method lines executed in one run, auxiliary recipes included
MaxVal   == 2        \* magnitude of the numbers in ingredient values
MaxLen   == 4        \* elements in one bowl or dish
MaxCalls == 1        \* auxiliary calls in one run
MaxLists == 3        \* list objects (bowls, dishes) alive in one run

\* ------------------------------------------------------ program constants
DEFAULT_BOWL == 1
DEFAULT_DISH == 1

Names    == {"x", "y"}             \* ingredient names a recipe may use
Keys     == 1 .. 3                 \* bowl / dish numbers of the dictionaries
Kinds    == {"dry", "liquid"}

\* ---------------------------------------------------------------- values
\* A Python value of an ingredient's slot 0: None, an int, or a float.  A
\* float is kept as the exact fraction n/d (d > 0, lowest terms).
NoneV      == [t |-> "none", n |-> 0, d |-> 1]
IntV(i)    == [t |-> "int", n |-> i, d |-> 1]

RECURSIVE Gcd(_, _)
Gcd(a, b) == IF b = 0 THEN a ELSE Gcd(b, a % b)

Abs(i) == IF i < 0 THEN -i ELSE i

Frac(t, n, d) ==
    LET s == IF d < 0 THEN -1 ELSE 1
        g == Gcd(Abs(n), Abs(d))
    IN  [t |-> t, n |-> (s * n) \div g, d |-> (s * d) \div g]

IsNum(v)  == v.t # "none"
Joined(a, b) == IF a.t = "float" \/ b.t = "float" THEN "float" ELSE "int"

\* Python's +, -, * on int and float operands.
PyAdd(a, b) == Frac(Joined(a, b), a.n * b.d + b.n * a.d, a.d * b.d)
PySub(a, b) == Frac(Joined(a, b), a.n * b.d - b.n * a.d, a.d * b.d)
PyMul(a, b) == Frac(Joined(a, b), a.n * b.n, a.d * b.d)
\* float(a / b), b # 0: true division always yields a float.
PyDiv(a, b) == Frac("float", a.n * b.d, a.d * b.n)
\* x == 0 and x != 0 as Python evaluates them (None == 0 is False).
PyIsZero(v) == IsNum(v) /\ v.n = 0

InRange(v) == v.n \in -MaxVal .. MaxVal /\ v.d \in 1 .. MaxVal

\* ----------------------------------------------------------------- state
VARIABLES
    heap,     \* ingredient objects: cell id -> [v: value, k: kind]
    lists,    \* list objects (bowls and dishes): list id -> sequence of cell ids
    dicts,    \* dictionaries mixing_bowls / baking_dishes: dict id -> (number -> list id, 0: no key)
    chefs,    \* the active Chef instances, caller first
    out,      \* what serve has printed, in order
    err,      \* "none", or the exception that ended the run
    done,     \* the top-level cook() has returned
    steps,    \* method lines executed so far, by every Chef instance
    call,     \* the caller's containers and ingredients at the auxiliary call, and
              \* whether the callee returned refrigerated (history)
    e2e       \* the run so far is the Put / Pour / Serves 1 recipe (history)

vars == <<heap, lists, dicts, chefs, out, err, done, steps, call, e2e>>

\* The ordinals a recipe may write, 0 standing for "no ordinal written".
Ords     == {0, 1, 2}
\* Pour's ordinals: its regex captures the digits only, so 200 is "the 200th".
PourOrds == {0, 1, 200}
\* The ordinals of Pour's baking dish.
DishOrds == PourOrds \cup {300}
\* The minutes of "Stir for k minutes.": the regex takes digits 1 to 9.
Minutes  == 1 .. MaxLen
\* What "Take ... from refrigerator" may read from the input.
Inputs   == -1 .. MaxVal
\* The N of "Serves N.", -1 when the recipe has no such line.
Servings == -1 .. 2
\* The quantities an ingredient declaration may give, NoneV when it gives none.
Quantities == {NoneV} \cup {IntV(i) : i \in 0 .. MaxVal}

Cell(v, k) == [v |-> v, k |-> k]

\* The depth of the running Chef and its frame.
Depth == Len(chefs)
Cur   == chefs[Depth]

\* The (value, kind) pairs a list object holds now, bottom first.
Contents(l) == [i \in 1 .. Len(lists[l]) |-> heap[lists[l][i]]]
\* The contents of every bowl (or dish) of a dictionary.
View(dd) == [k \in Keys |-> IF dicts[dd][k] = 0 THEN <<>> ELSE Contents(dicts[dd][k])]
Has(dd)  == [k \in Keys |-> dicts[dd][k] # 0]
\* The (value, kind) of every declared ingredient of a frame.
Table(f) == [n \in Names |-> IF f.ings[n] = 0 THEN Cell(NoneV, "undeclared") ELSE heap[f.ings[n]]]

\* A method line as parsed: the statement, its ingredient and its ordinals.
Instr(op, ing, ord, dish) == [op |-> op, ing |-> ing, ord |-> ord, dish |-> dish]

NoCall == [phase |-> "none", bowls |-> <<>>, dishes |-> <<>>, hasBowl |-> <<>>,
           hasDish |-> <<>>, ings |-> <<>>, C |-> <<>>, fridge |-> FALSE]

\* The "Serves N." line of a script is looked for when serve is first called.
Unread == -2

\* Chef.__init__ and the lazily built properties a frame carries.
Frame(bowls, dishes, ings, multi) ==
    [bowls |-> bowls, dishes |-> dishes, ings |-> ings, pc |-> 0,
     multi |-> multi, called |-> FALSE, refrigerated |-> FALSE,
     loopOpen |-> -1, loopTerm |-> -1, outerOpen |-> -1, outerTerm |-> -1,
     serves |-> Unread]

\* The ingredient declarations: a liquid unit needs a quantity (int("") fails).
Declared == {c \in {Cell(q, k) : q \in Quantities, k \in Kinds} : c.k = "liquid" => IsNum(c.v)}

\* The declarations of x an auxiliary recipe is given here.  Its text names
\* no bowl by an ordinal of 2 or more (has_multiple_bowls is False).
AuxDeclared == {Cell(IntV(1), "dry"), Cell(IntV(0), "liquid")}

Init ==
    /\ \E cx \in Declared, cy \in Declared, two \in BOOLEAN, multi \in BOOLEAN :
          /\ heap = IF two THEN <<cx, cy>> ELSE <<cx>>
          /\ chefs = <<Frame(1, 2, [n \in Names |-> IF n = "x" THEN 1 ELSE IF two THEN 2 ELSE 0], multi)>>
          /\ e2e = (~two /\ IsNum(cx.v))
    /\ lists = <<(<<>>), (<<>>)>>
    /\ dicts = <<[k \in Keys |-> IF k = DEFAULT_BOWL THEN 1 ELSE 0],
                 [k \in Keys |-> IF k = DEFAULT_DISH THEN 2 ELSE 0]>>
    /\ out = <<>>
    /\ err = "none"
    /\ done = FALSE
    /\ steps = 0
    /\ call = NoCall

\* ------------------------------------------------------------ statements
\* The outcome of executing one method line: the exception raised ("none"
\* when the line completes) and the heap, lists and dictionaries it leaves.
Ok(h, l, dd) == [e |-> "none", h |-> h, l |-> l, dd |-> dd]
Exc(e)       == [e |-> e, h |-> heap, l |-> lists, dd |-> dicts]
ExcAt(e, h, l, dd) == [e |-> e, h |-> h, l |-> l, dd |-> dd]

\* int(ordinal[:-2]) of "1st", "2nd", ...: the number the ordinal names.
OrdKey(ord) == IF ord = 0 THEN DEFAULT_BOWL ELSE ord
\* Pour's int(digits[:-2]) on the digits alone: the digits but the last two;
\* -1 stands for the ValueError of int("").
PourKey(ord, default) == IF ord = 0 THEN default ELSE IF ord < 100 THEN -1 ELSE ord \div 100

\* Chef.put
PutEff(f, X, ord) ==
    IF f.ings[X] = 0 THEN Exc("SyntaxError")
    ELSE IF ord # 0 \/ dicts[f.bowls][DEFAULT_BOWL] = 0 THEN Exc("RuntimeError")
    ELSE Ok(heap, [lists EXCEPT ![dicts[f.bowls][DEFAULT_BOWL]] = Append(@, f.ings[X])], dicts)

\* Fold that finds an empty bowl and lets the line pass.
FoldEffEmptyPasses(f, X, ord) ==
    LET bl == dicts[f.bowls][OrdKey(ord)]
    IN  IF bl = 0 THEN Exc("KeyError")
        ELSE IF lists[bl] = <<>> THEN Ok(heap, lists, dicts)
        ELSE IF f.ings[X] = 0 THEN Exc("KeyError")
        ELSE Ok([heap EXCEPT ![f.ings[X]].v = heap[lists[bl][Len(lists[bl])]].v],
                [lists EXCEPT ![bl] = SubSeq(@, 1, Len(@) - 1)], dicts)

\* parse_instruction B and Chef.fold
FoldEff(f, X, ord) ==
    LET key == OrdKey(ord)
        bl  == dicts[f.bowls][key]
        popped == [lists EXCEPT ![bl] = SubSeq(@, 1, Len(@) - 1)]
    IN  IF ord = 0 /\ f.multi THEN Exc("SyntaxError")
        ELSE IF bl = 0 THEN Exc("KeyError")
        ELSE IF lists[bl] = <<>> THEN Exc("IndexError")
        ELSE IF f.ings[X] = 0 THEN ExcAt("KeyError", heap, popped, dicts)
        ELSE Ok([heap EXCEPT ![f.ings[X]].v = heap[lists[bl][Len(lists[bl])]].v], popped, dicts)

\* parse_instruction C and Chef.addingredient
AddEff(f, X, ord) ==
    LET bl  == dicts[f.bowls][DEFAULT_BOWL]
        top == lists[bl][Len(lists[bl])]
    IN  IF ord = 0 /\ f.multi THEN Exc("SyntaxError")
        ELSE IF f.ings[X] = 0 THEN Exc("SyntaxError")
        ELSE IF ord # 0 \/ bl = 0 THEN Exc("RuntimeError")
        ELSE IF lists[bl] = <<>> THEN Exc("IndexError")
        ELSE IF ~IsNum(heap[top].v) \/ ~IsNum(heap[f.ings[X]].v) THEN Exc("TypeError")
        ELSE Ok([heap EXCEPT ![top].v = PyAdd(@, heap[f.ings[X]].v)], lists, dicts)

\* removeingredient, combineingredient, divideingredient share their shape:
\* the ingredient is read first, then the bowl is looked up under the
\* ordinal's digits as a string, a key the dictionary never has.
TopEff(f, X, ord, absent, op) ==
    LET bl  == dicts[f.bowls][DEFAULT_BOWL]
        top == lists[bl][Len(lists[bl])]
        raw == heap[f.ings[X]].v
        value == IF raw = NoneV THEN IntV(absent) ELSE raw
    IN  IF ord = 0 /\ f.multi THEN Exc("SyntaxError")
        ELSE IF f.ings[X] = 0 THEN Exc("KeyError")
        ELSE IF ord # 0 \/ bl = 0 THEN Exc("KeyError")
        ELSE IF lists[bl] = <<>> THEN Exc("IndexError")
        ELSE IF ~IsNum(heap[top].v) THEN Exc("TypeError")
        ELSE IF op = "Divide" /\ value.n = 0 THEN Exc("ZeroDivisionError")
        ELSE Ok([heap EXCEPT ![top].v =
                    CASE op = "Remove"  -> PySub(@, value)
                      [] op = "Combine" -> PyMul(@, value)
                      [] op = "Divide"  -> PyDiv(@, value)], lists, dicts)

\* Chef.removeingredient
RemoveEff(f, X, ord) == TopEff(f, X, ord, 0, "Remove")
\* Chef.combineingredient
CombineEff(f, X, ord) == TopEff(f, X, ord, 0, "Combine")
\* Chef.divideingredient
DivideEff(f, X, ord) == TopEff(f, X, ord, 1, "Divide")

\* parse_instruction G: Liquefy contents of the mixing bowl
LiquefyBowlEff(f, ord) ==
    LET bl == dicts[f.bowls][OrdKey(ord)]
        inBowl == {lists[bl][i] : i \in 1 .. Len(lists[bl])}
    IN  IF ord = 0 /\ f.multi THEN Exc("SyntaxError")
        ELSE IF bl = 0 THEN Exc("KeyError")
        ELSE Ok([c \in DOMAIN heap |-> IF c \in inBowl THEN [heap[c] EXCEPT !.k = "liquid"] ELSE heap[c]],
                lists, dicts)

\* parse_instruction H: Liquefy ingredient
LiquefyIngEff(f, X) ==
    IF f.ings[X] = 0 THEN Exc("KeyError")
    ELSE Ok([heap EXCEPT ![f.ings[X]].k = "liquid"], lists, dicts)

\* parse_instruction I: Clean mixing bowl
CleanEff(f, ord) ==
    IF ord = 0 /\ f.multi THEN Exc("SyntaxError")
    ELSE Ok(heap, Append(lists, <<>>), [dicts EXCEPT ![f.bowls][OrdKey(ord)] = Len(lists) + 1])

\* parse_instruction K: Take ingredient from refrigerator
TakeEff(f, X, n) ==
    IF f.ings[X] = 0 THEN Exc("SyntaxError")
    ELSE Ok([heap EXCEPT ![f.ings[X]].v = IntV(n)], lists, dicts)

\* Chef.pour
PourEff(f, bord, dord) ==
    LET bkey == PourKey(bord, DEFAULT_BOWL)
        dkey == PourKey(dord, DEFAULT_DISH)
        fresh == dicts[f.dishes][dkey] = 0
        l1  == IF fresh THEN Append(lists, <<>>) ELSE lists
        dd1 == IF fresh THEN [dicts EXCEPT ![f.dishes][dkey] = Len(lists) + 1] ELSE dicts
        dl  == dd1[f.dishes][dkey]
    IN  IF bkey = -1 \/ dkey = -1 THEN Exc("ValueError")
        ELSE IF bkey \notin Keys \/ dicts[f.bowls][bkey] = 0 THEN ExcAt("KeyError", heap, l1, dd1)
        ELSE Ok(heap, [l1 EXCEPT ![dl] = @ \o lists[dicts[f.bowls][bkey]]], dd1)

\* parse_instruction J: Mix the mixing bowl well.  random.shuffle leaves the
\* bowl in the order p, any permutation of its places.
Perms(n) == {p \in [1 .. n -> 1 .. n] : \A i, j \in 1 .. n : p[i] = p[j] => i = j}

MixEff(f, ord, p) ==
    LET bl == dicts[f.bowls][OrdKey(ord)]
    IN  IF ord = 0 /\ f.multi THEN Exc("SyntaxError")
        ELSE IF bl = 0 THEN Exc("KeyError")
        ELSE Ok(heap, [lists EXCEPT ![bl] = [i \in 1 .. Len(@) |-> @[p[i]]]], dicts)

\* parse_instruction N: "Add dry ingredients [to the nth mixing bowl]."  With
\* the bowl named the line is taken by the Add statement, for an ingredient
\* "dry ingredients" no recipe declares; without it put() is given a list
\* where it looks up a name.
AddDryEff(f, toBowl) == IF toBowl THEN Exc("SyntaxError") ELSE Exc("TypeError")

\* list.insert(-k, e) on a list of bottom-first elements: an index below 0
\* counts from the end, and -0 is 0, the front of the list.
PyInsertFromEnd(s, k, e) ==
    LET idx == IF k = 0 \/ Len(s) - k < 0 THEN 0 ELSE Len(s) - k
    IN  SubSeq(s, 1, idx) \o <<e>> \o SubSeq(s, idx + 1, Len(s))

\* Stir that leaves the former top on top.
StirRollNone(s, k) == s

\* Chef.stir on a non-empty bowl: pop the top, insert it k places from the end.
StirRoll(s, k) == PyInsertFromEnd(SubSeq(s, 1, Len(s) - 1), k, s[Len(s)])

\* len(self.mixing_bowls)
NumBowls(dd) == Cardinality({k \in Keys : dicts[dd][k] # 0})

\* parse_instruction P and Chef.stir.  "Stir the mixing bowl for k minutes."
\* (`the`) is not matched by the Stir regex and is taken for a loop opening
\* on an ingredient "mixing bowl for", which no recipe declares: nothing
\* happens.  "Stir for k minutes." and "Stir the nth mixing bowl for k
\* minutes." call Chef.stir and then fall through to syntax_error.
StirEff(f, the, ord, k) ==
    LET bl == dicts[f.bowls][OrdKey(ord)]
    IN  IF the THEN Exc("none")
        ELSE IF ord = 0 /\ NumBowls(f.bowls) # 1 THEN Exc("AssertionError")
        ELSE IF bl = 0 THEN Exc("SyntaxError")
        ELSE IF lists[bl] = <<>> THEN Exc("SyntaxError")
        ELSE ExcAt("SyntaxError", heap, [lists EXCEPT ![bl] = StirRoll(@, k)], dicts)

\* ----------------------------------------------------------------- loops
\* parse_instruction Q: a line "Verb the X." opening a loop.  `term` is the
\* line of the matching "... until verbed." in the recipe text, -1 when the
\* text has none.  Chef has no method `execute`, so entering the loop fails.
LoopOpenEff(f, X, term) ==
    IF f.ings[X] = 0 THEN Exc("none")
    ELSE IF PyIsZero(heap[f.ings[X]].v) THEN Exc("none")
    ELSE IF term = -1 THEN Exc("IOError")
    ELSE Exc("AttributeError")

\* parse_instruction Q on a terminator line "Verbed [the Y] until verbed.":
\* the verb regex needs " the ", and a match holding "until" returns.
LoopEndEff(f, hasIng) == IF hasIng THEN Exc("none") ELSE Exc("SyntaxError")

\* ----------------------------------------------------------------- serve
Reverse(s) == [i \in 1 .. Len(s) |-> s[Len(s) + 1 - i]]

\* Render without the chr() of a liquid: every element printed as its value.
RenderAsValue(c) == [e |-> "none", item |-> [form |-> "text", v |-> c.v]]

\* Chef.serve, the body of the inner for loop: what print() is given.
Render(c) ==
    IF c.k = "liquid"
    THEN IF c.v.t # "int" THEN [e |-> "TypeError", item |-> <<>>]
         ELSE IF c.v.n < 0 THEN [e |-> "ValueError", item |-> <<>>]
         ELSE [e |-> "none", item |-> [form |-> "char", v |-> c.v]]
    ELSE [e |-> "none", item |-> [form |-> "text", v |-> c.v]]

RECURSIVE PrintAll(_, _)
PrintAll(cells, acc) ==
    IF cells = <<>> THEN [e |-> "none", out |-> acc]
    ELSE LET r == Render(Head(cells))
         IN  IF r.e # "none" THEN [e |-> r.e, out |-> acc]
             ELSE PrintAll(Tail(cells), Append(acc, r.item))

\* A dish walked without the [::-1]: first element first.
DishOrderForward(l) == Contents(l)

\* Chef.serve, the inner for loop: one dish, last element first.
DishOrder(l) == Reverse(Contents(l))

RECURSIVE ServeDishes(_, _, _, _)
ServeDishes(dd, i, n, acc) ==
    IF i > n THEN [e |-> "none", out |-> acc]
    ELSE IF i \notin Keys \/ dicts[dd][i] = 0 THEN [e |-> "KeyError", out |-> acc]
    ELSE LET r == PrintAll(DishOrder(dicts[dd][i]), acc)
         IN  IF r.e # "none" THEN r ELSE ServeDishes(dd, i + 1, n, r.out)

NumDishes(dd) == Cardinality({k \in Keys : dicts[dd][k] # 0})

\* serve that takes a script without "Serves N." as asking for every dish.
ServeEffWithoutDirective(f, serves, arg) ==
    IF serves # -1 /\ arg # -1 THEN [e |-> "TypeError", out |-> out]
    ELSE LET n == IF serves = -1 \/ serves > NumDishes(f.dishes) THEN NumDishes(f.dishes) ELSE serves
         IN  ServeDishes(f.dishes, DEFAULT_BOWL, n, out)

\* serve with range(DEFAULT_BOWL, number_of_servings): the last dish left out.
ServeEffShortRange(f, serves, arg) ==
    IF serves = -1 THEN [e |-> "none", out |-> out]
    ELSE IF arg # -1 THEN [e |-> "TypeError", out |-> out]
    ELSE LET n == IF serves > NumDishes(f.dishes) THEN NumDishes(f.dishes) ELSE serves
         IN  ServeDishes(f.dishes, DEFAULT_BOWL, n - 1, out)

\* Chef.serve: `serves` is the N of "Serves N." (-1: no such line), `arg`
\* the number_of_servings argument (-1: None; Refrigerate passes a string).
ServeEff(f, serves, arg) ==
    IF serves = -1 THEN [e |-> "none", out |-> out]
    ELSE IF arg # -1 THEN [e |-> "TypeError", out |-> out]
    ELSE LET n == IF serves > NumDishes(f.dishes) THEN NumDishes(f.dishes) ELSE serves
         IN  ServeDishes(f.dishes, DEFAULT_BOWL, n, out)

\* --------------------------------------------------------------- actions
Bounded(o) ==
    /\ \A c \in DOMAIN o.h : InRange(o.h[c].v)
    /\ Len(o.l) <= MaxLists
    /\ \A i \in DOMAIN o.l : Len(o.l[i]) <= MaxLen

\* The while condition without the jump Refrigerate makes past the method.
CanStepIgnoringFridge == err = "none" /\ ~done /\ steps < MaxLines

\* Chef.cook, the while condition: a line is left to execute.
CanStep  == err = "none" /\ ~done /\ ~Cur.refrigerated /\ steps < MaxLines
\* The line is not the terminator of a loop opened above it.
LineFree == Cur.pc # Cur.loopTerm
\* "2nd mixing bowl" in the text sets has_multiple_bowls.
OrdOk(ord) == ord >= 2 => Cur.multi

IsE2ELine(i) ==
    /\ Depth = 1
    /\ \/ Cur.pc = 0 /\ i.op = "Put" /\ i.ing = "x" /\ i.ord = 0
       \/ Cur.pc = 1 /\ i.op = "Pour" /\ i.ord = 0 /\ i.dish = 0

\* Chef.cook, one pass of the while loop: parse_instruction on the current
\* line, then current_instruction_line += 1.  `f` is the frame as the
\* statement leaves it.
ExecF(instr, o, f) ==
    /\ Bounded(o)
    /\ heap' = o.h /\ lists' = o.l /\ dicts' = o.dd /\ err' = o.e
    /\ chefs' = IF o.e = "none" THEN [chefs EXCEPT ![Depth] = [f EXCEPT !.pc = @ + 1]] ELSE chefs
    /\ steps' = steps + 1
    /\ call' = IF call.phase = "returned" THEN NoCall ELSE call
    /\ e2e' = (e2e /\ IsE2ELine(instr))
    /\ UNCHANGED <<out, done>>

Exec(instr, o) == ExecF(instr, o, Cur)

Put(X, ord) ==
    CanStep /\ LineFree /\ OrdOk(ord) /\ Exec(Instr("Put", X, ord, 0), PutEff(Cur, X, ord))
Fold(X, ord) ==
    CanStep /\ LineFree /\ OrdOk(ord) /\ Exec(Instr("Fold", X, ord, 0), FoldEff(Cur, X, ord))
Add(X, ord) ==
    CanStep /\ LineFree /\ OrdOk(ord) /\ Exec(Instr("Add", X, ord, 0), AddEff(Cur, X, ord))
Remove(X, ord) ==
    CanStep /\ LineFree /\ OrdOk(ord) /\ Exec(Instr("Remove", X, ord, 0), RemoveEff(Cur, X, ord))
Combine(X, ord) ==
    CanStep /\ LineFree /\ OrdOk(ord) /\ Exec(Instr("Combine", X, ord, 0), CombineEff(Cur, X, ord))
Divide(X, ord) ==
    CanStep /\ LineFree /\ OrdOk(ord) /\ Exec(Instr("Divide", X, ord, 0), DivideEff(Cur, X, ord))
LiquefyBowl(ord) ==
    CanStep /\ LineFree /\ OrdOk(ord) /\ Exec(Instr("LiquefyBowl", "", ord, 0), LiquefyBowlEff(Cur, ord))
LiquefyIng(X) ==
    CanStep /\ LineFree /\ Exec(Instr("LiquefyIng", X, 0, 0), LiquefyIngEff(Cur, X))
Clean(ord) ==
    CanStep /\ LineFree /\ OrdOk(ord) /\ Exec(Instr("Clean", "", ord, 0), CleanEff(Cur, ord))
Take(X, n) ==
    CanStep /\ LineFree /\ Exec(Instr("Take", X, 0, 0), TakeEff(Cur, X, n))
Pour(bord, dord) ==
    CanStep /\ LineFree /\ OrdOk(bord) /\ Exec(Instr("Pour", "", bord, dord), PourEff(Cur, bord, dord))

Mix(ord) ==
    /\ CanStep /\ LineFree /\ OrdOk(ord)
    /\ LET bl == dicts[Cur.bowls][OrdKey(ord)]
       IN  \E p \in Perms(IF bl = 0 THEN 0 ELSE Len(lists[bl])) :
              Exec(Instr("Mix", "", ord, 0), MixEff(Cur, ord, p))
AddDry(toBowl) ==
    CanStep /\ LineFree /\ Exec(Instr("AddDry", "", 0, 0), AddDryEff(Cur, toBowl))
Stir(the, ord, k) ==
    /\ CanStep /\ LineFree /\ OrdOk(ord)
    /\ the => ord = 0
    /\ Exec(Instr("Stir", "", ord, 0), StirEff(Cur, the, ord, k))
\* "Set aside." whose signal ends the driver.
SetAsideEnds ==
    CanStep /\ LineFree /\ ExecF(Instr("SetAside", "", 0, 0), Exc("none"), [Cur EXCEPT !.refrigerated = TRUE])

\* "Set aside.": parse_instruction returns True, which cook() does not read.
SetAside ==
    CanStep /\ LineFree /\ Exec(Instr("SetAside", "", 0, 0), Exc("none"))

\* parse_instruction M: Refrigerate.  `matches`: the line is "Refrigerate
\* [for H] hours." (H = -1: no number); "Refrigerate." itself is no statement
\* the interpreter knows.  With a number, serve is called with the digits as
\* a string; `serves` is the "Serves N." line serve looks for, which the
\* script of an auxiliary recipe never has.  A line that completes sets
\* refrigerated and moves the line counter past the method.
Refrigerate(matches, H, serves) ==
    /\ CanStep /\ LineFree
    /\ ~matches => H = -1
    /\ IF matches /\ H # -1
       THEN Cur.serves \in {Unread, serves} /\ (Depth > 1 => serves = -1)
       ELSE serves = -1
    /\ LET r == IF ~matches THEN [e |-> "SyntaxError", out |-> out]
                ELSE IF H = -1 THEN [e |-> "none", out |-> out]
                ELSE ServeEff(Cur, serves, H)
       IN  /\ out' = r.out
           /\ err' = r.e
           /\ chefs' = IF r.e # "none" THEN chefs
                        ELSE [chefs EXCEPT ![Depth] =
                                [@ EXCEPT !.refrigerated = TRUE, !.pc = @ + 1,
                                          !.serves = IF H # -1 THEN serves ELSE @]]
    /\ steps' = steps + 1
    /\ call' = IF call.phase = "returned" THEN NoCall ELSE call
    /\ e2e' = FALSE
    /\ UNCHANGED <<heap, lists, dicts, done>>

\* The line of a loop's terminator in the method, -1 when the text has none.
Terms == -1 .. MaxLines + 1

\* A loop opened inside the body of another has its terminator before the
\* other's; the frame remembers the two innermost open loops.
LoopOpen(X, term) ==
    /\ CanStep /\ LineFree
    /\ Cur.outerTerm = -1
    /\ term = -1 \/ ( /\ Cur.ings[X] # 0
                      /\ term > Cur.pc
                      /\ Cur.loopTerm # -1 => term < Cur.loopTerm )
    /\ ExecF(Instr("LoopOpen", X, 0, 0), LoopOpenEff(Cur, X, term),
             IF term = -1 THEN Cur
             ELSE [Cur EXCEPT !.loopOpen = Cur.pc, !.loopTerm = term,
                              !.outerOpen = Cur.loopOpen, !.outerTerm = Cur.loopTerm])

LoopEnd(hasIng) ==
    /\ CanStep
    /\ ExecF(Instr("LoopEnd", "", 0, 0), LoopEndEff(Cur, hasIng),
             IF LineFree THEN Cur
             ELSE [Cur EXCEPT !.loopOpen = Cur.outerOpen, !.loopTerm = Cur.outerTerm,
                              !.outerOpen = -1, !.outerTerm = -1])

\* -------------------------------------------------------- auxiliary call
\* Auxiliary calls made so far: each one adds two dictionaries.
NumCalls == (Len(dicts) - 2) \div 2

\* copy.copy of a dictionary: a new dictionary holding the same list objects.
CopyDict(dd) == dicts[dd]

\* An unknown recipe name passed over: the line completes.
UnknownAuxIgnored(f) == Ok(heap, lists, dicts)

\* Chef.call_sous_chef, aux_recipe_name not in self.auxiliary_recipes:
\* runtime_error, before any Chef is created.
UnknownAuxEff(f) == Exc("RuntimeError")

\* Chef.call_sous_chef up to sous_chef.cook(): "Serve with R."
\*   comment: the caller's text has a comment paragraph (the auxiliary_recipes
\*            property passes self.comment to str.replace, None without one;
\*            an auxiliary script never has one);
\*   known:   R names an auxiliary recipe of the caller;
\*   cz, multi: R's ingredient x and its has_multiple_bowls.
Call(comment, known, cz, multi) ==
    /\ CanStep /\ LineFree
    /\ Cur.called => comment
    /\ Depth > 1 => ~comment
    /\ LET instr == Instr("ServeWith", "", 0, 0)
       IN  IF ~comment
           THEN Exec(instr, Exc("TypeError"))
           ELSE IF ~known
           THEN LET o == UnknownAuxEff(Cur)
                IN  /\ heap' = o.h /\ lists' = o.l /\ dicts' = o.dd /\ err' = o.e
                    /\ chefs' = IF o.e = "none" THEN [chefs EXCEPT ![Depth].pc = @ + 1] ELSE chefs
                    /\ call' = [phase |-> "unknown", bowls |-> View(Cur.bowls),
                                dishes |-> View(Cur.dishes), hasBowl |-> Has(Cur.bowls),
                                hasDish |-> Has(Cur.dishes), ings |-> Table(Cur), C |-> <<>>,
                                fridge |-> FALSE]
                    /\ steps' = steps + 1
                    /\ e2e' = FALSE
                    /\ UNCHANGED <<out, done>>
           ELSE /\ NumCalls < MaxCalls
                /\ heap' = Append(heap, cz)
                /\ dicts' = dicts \o <<CopyDict(Cur.bowls), CopyDict(Cur.dishes)>>
                /\ chefs' = <<[Cur EXCEPT !.called = TRUE],
                              Frame(Len(dicts) + 1, Len(dicts) + 2,
                                    [n \in Names |-> IF n = "x" THEN Len(heap) + 1 ELSE 0], multi)>>
                /\ call' = [phase |-> "active", bowls |-> View(Cur.bowls), dishes |-> View(Cur.dishes),
                            hasBowl |-> Has(Cur.bowls), hasDish |-> Has(Cur.dishes),
                            ings |-> Table(Cur), C |-> <<>>, fridge |-> FALSE]
                /\ steps' = steps + 1
                /\ e2e' = FALSE
                /\ UNCHANGED <<lists, out, err, done>>

\* The merge made although cook() of the callee raised.
ReturnAfterError ==
    /\ ~done /\ Depth = 2
    /\ LET caller == chefs[1]
           cl == dicts[caller.bowls][DEFAULT_BOWL]
           sl == dicts[Cur.bowls][DEFAULT_BOWL]
           l2 == [lists EXCEPT ![cl] = @ \o lists[sl]]
       IN  /\ Len(l2[cl]) <= MaxLen
           /\ lists' = l2
           /\ chefs' = <<[caller EXCEPT !.pc = @ + 1]>>
           /\ call' = [call EXCEPT !.phase = "returned", !.C = Contents(sl),
                                      !.fridge = Cur.refrigerated]
    /\ UNCHANGED <<heap, dicts, out, err, done, steps, e2e>>

\* The return that hands the callee's refrigerated flag to the caller.
ReturnEndsCaller ==
    /\ err = "none" /\ ~done /\ Depth = 2
    /\ Cur.loopTerm = -1 \/ Cur.refrigerated
    /\ LET caller == chefs[1]
           cl == dicts[caller.bowls][DEFAULT_BOWL]
           sl == dicts[Cur.bowls][DEFAULT_BOWL]
           l2 == [lists EXCEPT ![cl] = @ \o lists[sl]]
       IN  /\ Len(l2[cl]) <= MaxLen
           /\ lists' = l2
           /\ chefs' = <<[caller EXCEPT !.pc = @ + 1, !.refrigerated = Cur.refrigerated]>>
           /\ call' = [call EXCEPT !.phase = "returned", !.C = Contents(sl),
                                      !.fridge = Cur.refrigerated]
    /\ UNCHANGED <<heap, dicts, out, err, done, steps, e2e>>

\* Chef.call_sous_chef from the return of sous_chef.cook(): the callee's
\* method is over (its script has no Serves line, so its serve prints
\* nothing), the caller's bowl 1 is extended by the callee's bowl 1, and the
\* caller's cook() moves to its next line.
Return ==
    /\ err = "none" /\ ~done /\ Depth = 2
    /\ Cur.loopTerm = -1 \/ Cur.refrigerated
    /\ LET caller == chefs[1]
           cl == dicts[caller.bowls][DEFAULT_BOWL]
           sl == dicts[Cur.bowls][DEFAULT_BOWL]
           l2 == [lists EXCEPT ![cl] = @ \o lists[sl]]
       IN  /\ Len(l2[cl]) <= MaxLen
           /\ lists' = l2
           /\ chefs' = <<[caller EXCEPT !.pc = @ + 1]>>
           /\ call' = [call EXCEPT !.phase = "returned", !.C = Contents(sl),
                                      !.fridge = Cur.refrigerated]
    /\ UNCHANGED <<heap, dicts, out, err, done, steps, e2e>>

\* cook() that serves whether refrigerated or not.
FinishAlwaysServes(serves) ==
    /\ err = "none" /\ ~done /\ Depth = 1
    /\ Cur.loopTerm = -1 \/ Cur.refrigerated
    /\ LET r == ServeEff(Cur, serves, -1)
       IN  /\ Cur.serves \in {Unread, serves}
           /\ out' = r.out
           /\ err' = r.e
           /\ chefs' = [chefs EXCEPT ![Depth].serves = serves]
    /\ done' = TRUE
    /\ call' = IF call.phase = "returned" THEN NoCall ELSE call
    /\ e2e' = (e2e /\ Cur.pc = 2 /\ serves = 1)
    /\ UNCHANGED <<heap, lists, dicts, steps>>

\* Chef.cook after the while loop, top level: serve unless refrigerated.
\* `serves` is the N of the recipe's "Serves N." line, -1 without one.
Finish(serves) ==
    /\ err = "none" /\ ~done /\ Depth = 1
    /\ Cur.loopTerm = -1 \/ Cur.refrigerated
    /\ IF Cur.refrigerated
       THEN serves = -1 /\ UNCHANGED <<out, err, chefs>>
       ELSE LET r == ServeEff(Cur, serves, -1)
            IN  /\ Cur.serves \in {Unread, serves}
                /\ out' = r.out
                /\ err' = r.e
                /\ chefs' = [chefs EXCEPT ![Depth].serves = serves]
    /\ done' = TRUE
    /\ call' = IF call.phase = "returned" THEN NoCall ELSE call
    /\ e2e' = (e2e /\ Cur.pc = 2 /\ serves = 1)
    /\ UNCHANGED <<heap, lists, dicts, steps>>

Next ==
    \/ \E X \in Names, ord \in Ords : Put(X, ord)
    \/ \E X \in Names, ord \in Ords : Fold(X, ord)
    \/ \E X \in Names, ord \in Ords : Add(X, ord)
    \/ \E X \in Names, ord \in Ords : Remove(X, ord)
    \/ \E X \in Names, ord \in Ords : Combine(X, ord)
    \/ \E X \in Names, ord \in Ords : Divide(X, ord)
    \/ \E ord \in Ords : LiquefyBowl(ord)
    \/ \E X \in Names : LiquefyIng(X)
    \/ \E ord \in Ords : Clean(ord)
    \/ \E X \in Names, n \in Inputs : Take(X, n)
    \/ \E bord \in PourOrds, dord \in DishOrds : Pour(bord, dord)
    \/ \E X \in Names, term \in Terms : LoopOpen(X, term)
    \/ \E hasIng \in BOOLEAN : LoopEnd(hasIng)
    \/ \E ord \in Ords : Mix(ord)
    \/ \E toBowl \in BOOLEAN : AddDry(toBowl)
    \/ \E the \in BOOLEAN, ord \in Ords, k \in Minutes : Stir(the, ord, k)
    \/ SetAside
    \/ \E matches \in BOOLEAN, H \in -1 .. 2, serves \in Servings : Refrigerate(matches, H, serves)
    \/ \E comment \in BOOLEAN, known \in BOOLEAN, cz \in AuxDeclared :
          Call(comment, known, cz, FALSE)
    \/ Return
    \/ \E serves \in Servings : Finish(serves)

Spec == Init /\ [][Next]_vars

\* ------------------------------------------- recipes cooked one after another
\* Chef(script) once more in the same process, after the first recipe is
\* cooked: mixing_bowls and baking_dishes are the default arguments of
\* __init__, the two dictionaries made when the function was defined, which
\* the first Chef was given too.  cz is the new recipe's ingredient x.
Load(cz) ==
    /\ done /\ err = "none"
    /\ Cur.ings["x"] = 1
    /\ heap' = Append(heap, cz)
    /\ chefs' = <<Frame(1, 2, [n \in Names |-> IF n = "x" THEN Len(heap) + 1 ELSE 0], FALSE)>>
    /\ done' = FALSE
    /\ call' = NoCall
    /\ e2e' = FALSE
    /\ UNCHANGED <<lists, dicts, out, err, steps>>

\* Recipes of Put and Pour lines, cooked one after another.
NextSession ==
    \/ \E X \in Names : Put(X, 0)
    \/ Pour(0, 0)
    \/ \E serves \in Servings : Finish(serves)
    \/ \E cz \in AuxDeclared : Load(cz)

SpecSession == Init /\ [][NextSession]_vars

\* ------------------------------------------------------- Chef.stir alone
\* Chef.stir on every bowl a recipe of x and y can have built: the state
\* after the Put lines (and the Clean line of a second bowl) that built it.
BowlsOf(n) == [1 .. n -> {1, 2}]

InitStir ==
    /\ \E n \in 0 .. MaxLen, two \in BOOLEAN, multi \in BOOLEAN :
          /\ two => multi
          /\ \E b \in BowlsOf(n) :
                lists = IF two THEN <<b, (<<>>), (<<>>)>> ELSE <<b, (<<>>)>>
          /\ dicts = <<[k \in Keys |-> IF k = DEFAULT_BOWL THEN 1 ELSE IF k = 2 /\ two THEN 3 ELSE 0],
                       [k \in Keys |-> IF k = DEFAULT_DISH THEN 2 ELSE 0]>>
          /\ chefs = <<[Frame(1, 2, [m \in Names |-> IF m = "x" THEN 1 ELSE 2], multi)
                          EXCEPT !.pc = n + (IF two THEN 1 ELSE 0)]>>
    /\ heap = <<Cell(IntV(1), "dry"), Cell(IntV(2), "dry")>>
    /\ out = <<>>
    /\ err = "none"
    /\ done = FALSE
    /\ steps = 0
    /\ call = NoCall
    /\ e2e = FALSE

NextStir == \E the \in BOOLEAN, ord \in Ords, k \in Minutes : Stir(the, ord, k)

SpecStir == InitStir /\ [][NextStir]_vars

\* --------------------------------------------- Chef.stir by an ingredient
\* Chef.stir(mixingbowl, 0, ingredient): the offset is int() of X's value.
\* parse_instruction P makes this call for a line matching "Stir (a-zA-Z0-9 )+
\* into the nth mixing bowl", the characters a-zA-Z0-9 themselves, which is
\* no line "Stir X into the nth mixing bowl." of a recipe: the method is
\* called here by itself, on the bowls of InitStir.
StirByEff(f, X, ord) ==
    LET bl == dicts[f.bowls][OrdKey(ord)]
        v  == heap[f.ings[X]].v
    IN  IF f.ings[X] = 0 THEN Exc("KeyError")
        ELSE IF ~IsNum(v) THEN Exc("TypeError")
        ELSE IF ord = 0 /\ NumBowls(f.bowls) # 1 THEN Exc("AssertionError")
        ELSE IF bl = 0 THEN Exc("SyntaxError")
        ELSE IF lists[bl] = <<>> THEN Ok(heap, lists, dicts)
        ELSE Ok(heap, [lists EXCEPT ![bl] = StirRoll(@, v.n \div v.d)], dicts)

\* One call of Chef.stir with an ingredient; the line counter is the driver's.
StirBy(X, ord) ==
    /\ err = "none" /\ steps < MaxLines
    /\ LET o == StirByEff(Cur, X, ord)
       IN  heap' = o.h /\ lists' = o.l /\ dicts' = o.dd /\ err' = o.e
    /\ steps' = steps + 1
    /\ UNCHANGED <<chefs, out, done, call, e2e>>

\* The bowls of InitStir, with x of any value from 0.
InitRoll ==
    /\ \E n \in 0 .. MaxLen, two \in BOOLEAN, multi \in BOOLEAN :
          /\ two => multi
          /\ \E b \in BowlsOf(n) :
                lists = IF two THEN <<b, (<<>>), (<<>>)>> ELSE <<b, (<<>>)>>
          /\ dicts = <<[k \in Keys |-> IF k = DEFAULT_BOWL THEN 1 ELSE IF k = 2 /\ two THEN 3 ELSE 0],
                       [k \in Keys |-> IF k = DEFAULT_DISH THEN 2 ELSE 0]>>
          /\ chefs = <<[Frame(1, 2, [m \in Names |-> IF m = "x" THEN 1 ELSE 2], multi)
                          EXCEPT !.pc = n + (IF two THEN 1 ELSE 0)]>>
    /\ \E v \in 0 .. MaxVal : heap = <<Cell(IntV(v), "dry"), Cell(IntV(2), "dry")>>
    /\ out = <<>>
    /\ err = "none"
    /\ done = FALSE
    /\ steps = 0
    /\ call = NoCall
    /\ e2e = FALSE

NextRoll == \E X \in Names, ord \in Ords : StirBy(X, ord)

SpecRoll == InitRoll /\ [][NextRoll]_vars

\* ------------------------------------- methods without loops and calls
\* Chef.cook on a method that opens no loop and calls no auxiliary recipe.
\* The while loop of cook() runs on by itself: a step that can be taken is.
NextDriver ==
    \/ \E X \in Names, ord \in Ords : Put(X, ord)
    \/ \E X \in Names, ord \in Ords : Fold(X, ord)
    \/ \E X \in Names, ord \in Ords : Add(X, ord)
    \/ \E X \in Names, ord \in Ords : Remove(X, ord)
    \/ \E X \in Names, ord \in Ords : Combine(X, ord)
    \/ \E X \in Names, ord \in Ords : Divide(X, ord)
    \/ \E ord \in Ords : LiquefyBowl(ord)
    \/ \E X \in Names : LiquefyIng(X)
    \/ \E ord \in Ords : Clean(ord)
    \/ \E X \in Names, n \in Inputs : Take(X, n)
    \/ \E bord \in PourOrds, dord \in DishOrds : Pour(bord, dord)
    \/ \E ord \in Ords : Mix(ord)
    \/ \E toBowl \in BOOLEAN : AddDry(toBowl)
    \/ \E ord \in Ords, k \in Minutes : Stir(FALSE, ord, k)
    \/ SetAside
    \/ \E matches \in BOOLEAN, H \in -1 .. 2, serves \in Servings : Refrigerate(matches, H, serves)
    \/ \E serves \in Servings : Finish(serves)

SpecDriver == Init /\ [][NextDriver]_vars /\ WF_vars(NextDriver)

\* -------------------------------------------- recipes with "Set aside."
\* Recipes of Put, Pour and "Set aside." lines, no loop opened.
NextAside ==
    \/ \E X \in Names : Put(X, 0)
    \/ Pour(0, 0)
    \/ SetAside
    \/ \E serves \in Servings : Finish(serves)

SpecAside == Init /\ [][NextAside]_vars

\* ================================================================ claims
\* What the running Chef sees in its bowls, its dishes, its ingredients.
BowlView == View(Cur.bowls)
DishView == View(Cur.dishes)
IngView  == Table(Cur)
ButLast(s) == SubSeq(s, 1, Len(s) - 1)

TakeStep(X)   == \E n \in Inputs : Take(X, n)
FoldStep(X)   == \E ord \in Ords : Fold(X, ord)
ArithStep ==
    \E X \in Names, ord \in Ords : Add(X, ord) \/ Remove(X, ord) \/ Combine(X, ord) \/ Divide(X, ord)
LiquefyBowlStep == \E ord \in Ords : LiquefyBowl(ord)

\* C1: Put stores an independent snapshot.  (a) A statement that changes an
\* ingredient (Take, Liquefy X, Fold X) leaves the (value, kind) of every
\* element already in a bowl as it was (Fold removes the top element and
\* leaves the others); (b) arithmetic on the top of a bowl and Liquefy
\* contents leave the (value, kind) of every ingredient as it was.
C1_PutStoresSnapshot ==
    [][ /\ \A X \in Names : (TakeStep(X) \/ LiquefyIng(X)) => BowlView' = BowlView
        /\ \A X \in Names, ord \in Ords : (Fold(X, ord) /\ err' = "none") =>
              BowlView' = [BowlView EXCEPT ![OrdKey(ord)] = ButLast(@)]
        /\ (ArithStep \/ LiquefyBowlStep) => IngView' = IngView ]_vars

\* C2: Pour stores independent snapshots: a statement that changes the bowl
\* (arithmetic on its top, Liquefy contents, Fold, Clean) leaves the (value,
\* kind) of every element already in a dish as it was.
C2_PourStoresSnapshots ==
    [][ (ArithStep \/ LiquefyBowlStep \/ (\E X \in Names : FoldStep(X)) \/ (\E ord \in Ords : Clean(ord)))
          => DishView' = DishView ]_vars

\* C3: when "Serve with R." has returned, every bowl of the caller but bowl
\* 1, and every dish of the caller, holds the elements it held at the call.
C3_CallLeavesContainers ==
    call.phase = "returned" =>
        /\ \A k \in Keys \ {DEFAULT_BOWL} : BowlView[k] = call.bowls[k]
        /\ Has(Cur.bowls) = call.hasBowl
        /\ DishView = call.dishes
        /\ Has(Cur.dishes) = call.hasDish

\* C4: when "Serve with R." has returned, the caller's bowl 1 is its bowl 1
\* at the call (B) followed by the callee's final bowl 1 (C).
C4_CallMergesBowlOne ==
    call.phase = "returned" => BowlView[DEFAULT_BOWL] = call.bowls[DEFAULT_BOWL] \o call.C

\* C5: when "Serve with R." has returned, every ingredient of the caller
\* has the (value, kind) it had at the call.
C5_CallLeavesIngredients ==
    call.phase = "returned" => IngView = call.ings

\* The cells serve is to print for "Serves N.": dishes 1..count in
\* increasing number, each from its most recent element to its earliest,
\* count being N clamped to the number of dishes.
RECURSIVE ExpectedFrom(_, _)
ExpectedFrom(i, n) ==
    IF i > n THEN <<>>
    ELSE LET dish == DishView[i]
         IN  [j \in 1 .. Len(dish) |-> dish[Len(dish) + 1 - j]] \o ExpectedFrom(i + 1, n)
Expected(N) ==
    IF N = -1 THEN <<>>
    ELSE ExpectedFrom(1, IF N > NumDishes(Cur.dishes) THEN NumDishes(Cur.dishes) ELSE N)

C7_RenderByKind ==
    [][ \A N \in Servings : Finish(N) =>
          \A i \in 1 .. Len(out') :
             LET c == Expected(N)[i]
             IN  /\ c.k = "dry" => out'[i] = [form |-> "text", v |-> c.v]
                 /\ c.k = "liquid" => out'[i] = [form |-> "char", v |-> c.v] /\ c.v.t = "int" ]_vars

C7_Witness ==
    /\ done /\ err = "none"
    /\ \E i, j \in 1 .. Len(out) : out[i].form = "char" /\ out[j].form = "text"

C9_ZeroLoopSkipsBody ==
    [][ ~ ( /\ Cur.loopTerm # -1
            /\ Cur.pc > Cur.loopOpen /\ Cur.pc < Cur.loopTerm
            /\ steps' = steps + 1 ) ]_vars

\* C10: a loop whose opening ingredient is n > 0 and whose text has its
\* terminator runs until that ingredient is 0: the opening line completes
\* without error and leaves the ingredient at 0.
C10_LoopRunsToZero ==
    [][ \A X \in Names, term \in 0 .. MaxLines :
          ( /\ LoopOpen(X, term)
            /\ Cur.ings[X] # 0
            /\ heap[Cur.ings[X]].v.t = "int" /\ heap[Cur.ings[X]].v.n > 0 )
          => (err' = "none" /\ PyIsZero(heap'[Cur.ings[X]].v)) ]_vars

\* C11: "Set aside." executed on a line of a loop's body ends the loop: the
\* next line to execute is the one after the loop's terminator.
C11_SetAsideEndsLoop ==
    [][ ( /\ SetAside
          /\ Cur.loopTerm # -1 /\ Cur.pc > Cur.loopOpen /\ Cur.pc < Cur.loopTerm )
        => chefs'[Depth].pc = Cur.loopTerm + 1 ]_vars

\* The roll as the documentation words it: the top goes down min(k, n-1)
\* places, what it passes rises one place, what is below stays.
RollAsDocumented(s, k) ==
    LET n == Len(s)
        d == IF k < n - 1 THEN k ELSE n - 1
    IN  [i \in 1 .. n |-> IF i < n - d THEN s[i] ELSE IF i = n - d THEN s[n] ELSE s[i - 1]]

\* C12: Chef.stir on a non-empty bowl of n elements with k >= 1 minutes moves
\* the top element min(k, n-1) places down, the elements it passes rising
\* one place and the ones below staying; (top first) 1 2 3 4 with k = 2
\* becomes 2 3 1 4; no other bowl or dish changes.
C12_StirRolls ==
    [][ /\ StirRoll(<<4, 3, 2, 1>>, 2) = <<4, 1, 3, 2>>
        /\ \A ord \in Ords, k \in Minutes :
              LET bl == dicts[Cur.bowls][OrdKey(ord)]
              IN  ( /\ Stir(FALSE, ord, k)
                    /\ err' # "AssertionError"
                    /\ bl # 0 /\ lists[bl] # <<>> )
                  => /\ lists'[bl] = RollAsDocumented(lists[bl], k)
                     /\ \A l \in DOMAIN lists \ {bl} : lists'[l] = lists[l]
                     /\ heap' = heap /\ dicts' = dicts ]_vars

C12_Witness ==
    /\ steps = 1 /\ err = "SyntaxError"
    /\ Len(lists[1]) = MaxLen
    /\ lists[1][1] # lists[1][2] /\ lists[1][3] # lists[1][2]

\* A step of a statement that names its mixing bowl without an ordinal.
ImplicitBowlStep ==
    \/ \E X \in Names : Put(X, 0) \/ Fold(X, 0) \/ Add(X, 0) \/ Remove(X, 0)
                            \/ Combine(X, 0) \/ Divide(X, 0)
    \/ LiquefyBowl(0) \/ Clean(0) \/ Mix(0) \/ AddDry(FALSE)
    \/ \E dord \in DishOrds : Pour(0, dord)
    \/ \E the \in BOOLEAN, k \in Minutes : Stir(the, 0, k)

\* C13: in a recipe whose text names a mixing bowl by an ordinal of 2 or
\* more, every statement that omits the bowl's ordinal fails with the
\* ambiguous-reference (syntax) error and changes no bowl and no dish; in a
\* recipe without such a name the omission raises no such error.
C13_AmbiguousReference ==
    [][ /\ (Cur.multi /\ ImplicitBowlStep) =>
              /\ err' = "SyntaxError"
              /\ BowlView' = BowlView /\ DishView' = DishView
        /\ (~Cur.multi /\ ((\E X \in Names : Fold(X, 0)) \/ LiquefyBowl(0) \/ Clean(0) \/ Mix(0)))
              => err' # "SyntaxError" ]_vars

\* The step succeeds and leaves what outcome o of the ordinal-less statement
\* leaves, whenever that statement succeeds.
SameAs(o) == o.e = "none" => (err' = "none" /\ heap' = o.h /\ lists' = o.l /\ dicts' = o.dd)

\* C14: in a recipe with one bowl and one dish, a statement written with
\* "the 1st mixing bowl" / "the 1st baking dish" succeeds and leaves the
\* state the same statement without the ordinal leaves.
C14_FirstOrdinalIsLegal ==
    [][ ~Cur.multi =>
          /\ \A X \in Names :
                /\ Put(X, 1) => SameAs(PutEff(Cur, X, 0))
                /\ Fold(X, 1) => SameAs(FoldEff(Cur, X, 0))
                /\ Add(X, 1) => SameAs(AddEff(Cur, X, 0))
                /\ Remove(X, 1) => SameAs(RemoveEff(Cur, X, 0))
                /\ Combine(X, 1) => SameAs(CombineEff(Cur, X, 0))
                /\ Divide(X, 1) => SameAs(DivideEff(Cur, X, 0))
          /\ Pour(1, 0) => SameAs(PourEff(Cur, 0, 0))
          /\ Pour(0, 1) => SameAs(PourEff(Cur, 0, 0)) ]_vars

\* C15: a statement that uses the value of an ingredient declared without a
\* quantity, before a value is assigned to it, fails and leaves every bowl
\* and dish as it was.
C15_AbsentValueFails ==
    [][ \A X \in Names :
          ( /\ Cur.ings[X] # 0
            /\ heap[Cur.ings[X]].v = NoneV
            /\ \/ \E ord \in Ords : Put(X, ord) \/ Add(X, ord) \/ Remove(X, ord)
                                       \/ Combine(X, ord) \/ Divide(X, ord)
               \/ \E term \in -1 .. MaxLines : LoopOpen(X, term) )
          => (err' # "none" /\ BowlView' = BowlView /\ DishView' = DishView) ]_vars

\* C16: "Serve with R." executed by an auxiliary recipe (a nested call)
\* either starts the nested recipe or ends with the recursion-limit error.
C16_BoundedRecursion ==
    [][ \A comment \in BOOLEAN, cz \in AuxDeclared :
          (Depth > 1 /\ Call(comment, TRUE, cz, FALSE))
          => err' \in {"none", "RecursionLimitExceeded"} ]_vars

\* C17: a Refrigerate statement that completes sets the ended flag of its
\* context; from then on the flag stays set, no method line of that context
\* is executed and its end-of-cook serve prints nothing.
C17_RefrigerateEnds ==
    [][ /\ \A matches \in BOOLEAN, H \in -1 .. 2, serves \in Servings :
              Refrigerate(matches, H, serves) => (err' # "none" \/ chefs'[Depth].refrigerated)
        /\ Cur.refrigerated =>
              /\ steps' = steps /\ out' = out /\ err' = err
              /\ Len(chefs') = Depth => chefs'[Depth].refrigerated ]_vars

C17_Witness ==
    /\ done /\ err = "none" /\ Cur.refrigerated
    /\ Len(DishView[DEFAULT_DISH]) > 0 /\ out = <<>>

\* C18: "Refrigerate for H hours." in a recipe with a "Serves N." line
\* prints the first H baking dishes (as many as there are), as serve does,
\* and ends the recipe without error.
C18_RefrigerateServes ==
    [][ \A H \in 0 .. 2, serves \in 0 .. 2 :
          Refrigerate(TRUE, H, serves) =>
             /\ err' = "none"
             /\ Len(out') = Len(out) + Len(Expected(H))
             /\ \A i \in 1 .. Len(Expected(H)) : out'[Len(out) + i].v = Expected(H)[i].v ]_vars

\* C19: in a recipe without a "Serves N." line, serve (at the end of cook
\* or from Refrigerate) prints nothing, raises nothing and changes no bowl,
\* dish or ingredient.
C19_ServeWithoutDirective ==
    [][ ( \/ Finish(-1) /\ ~Cur.refrigerated
          \/ \E H \in 0 .. 2 : Refrigerate(TRUE, H, -1) )
        => /\ out' = out /\ err' = "none"
           /\ BowlView' = BowlView /\ DishView' = DishView /\ IngView' = IngView ]_vars

C19_Witness ==
    /\ done /\ err = "none" /\ ~Cur.refrigerated /\ Cur.serves = -1
    /\ Len(DishView[DEFAULT_DISH]) > 0 /\ out = <<>>

\* C20: serve never reads a baking dish that was never created, whatever
\* "Serves N." asks and whichever dish numbers Pour has created.
C20_ServeReadsExistingDishes ==
    [][ \A N \in Servings : (Finish(N) /\ ~Cur.refrigerated) => err' # "KeyError" ]_vars

\* C21: "Serve with R." for an R that is no auxiliary recipe of the caller
\* ends the run with an error, no Chef having been created for it, and
\* leaves the caller's bowls, dishes and ingredients as they were.
C21_UnknownAuxFails ==
    call.phase = "unknown" =>
        /\ err = "RuntimeError" /\ ~done
        /\ Depth = 1
        /\ BowlView = call.bowls /\ Has(Cur.bowls) = call.hasBowl
        /\ DishView = call.dishes /\ Has(Cur.dishes) = call.hasDish
        /\ IngView = call.ings

C21_Witness ==
    /\ call.phase = "unknown" /\ err # "none"
    /\ Len(BowlView[DEFAULT_BOWL]) > 0

\* C22: once an error is raised, in the top-level recipe or in an auxiliary
\* one, no method line is executed in any Chef, the caller of a failing
\* auxiliary recipe does not merge bowl 1, and serve prints nothing more.
C22_ErrorsAbort ==
    [][ err # "none" => UNCHANGED <<heap, lists, dicts, chefs, out, steps, done>> ]_vars

C22_Witness ==
    /\ err # "none" /\ Depth = 2 /\ call.phase = "active"
    /\ Len(View(chefs[2].bowls)[DEFAULT_BOWL]) > 0

\* C23: a Stir line that names a bowl the recipe has is executed as a Stir
\* and as nothing else: it completes and the driver moves to the next line.
C23_DispatchExclusive ==
    [][ \A ord \in Ords, k \in Minutes :
          ( /\ Stir(FALSE, ord, k)
            /\ dicts[Cur.bowls][OrdKey(ord)] # 0
            /\ ord = 0 => NumBowls(Cur.bowls) = 1 )
          => (err' = "none" /\ chefs'[Depth].pc = Cur.pc + 1) ]_vars

\* C24: Pour, with the 1st mixing bowl and the 1st baking dish named or
\* left out, appends the elements of bowl 1 in order after those of dish 1
\* and leaves the bowls and every other dish as they were.
C24_PourAppends ==
    [][ \A bord \in {0, 1}, dord \in {0, 1} :
          Pour(bord, dord) =>
             /\ err' = "none"
             /\ DishView'[DEFAULT_DISH] = DishView[DEFAULT_DISH] \o BowlView[DEFAULT_BOWL]
             /\ \A k \in Keys \ {DEFAULT_DISH} : DishView'[k] = DishView[k]
             /\ BowlView' = BowlView ]_vars

\* C25: a Fold of X that completes removes the top element of the bowl and
\* nothing else of it, gives X the removed element's value and leaves X's
\* kind as it was.
C25_FoldPopsTop ==
    [][ \A X \in Names, ord \in Ords :
          (Fold(X, ord) /\ err' = "none") =>
             LET bowl == BowlView[OrdKey(ord)]
             IN  /\ BowlView'[OrdKey(ord)] = ButLast(bowl)
                 /\ IngView'[X].v = bowl[Len(bowl)].v
                 /\ IngView'[X].k = IngView[X].k ]_vars

\* C26: a Chef created without containers after another recipe was cooked
\* in the same process starts with an empty bowl 1 and an empty dish 1 and
\* no other bowl or dish.
C26_ContextsIndependent ==
    [][ \A cz \in AuxDeclared :
          Load(cz) =>
             /\ \A k \in Keys : BowlView'[k] = <<>> /\ DishView'[k] = <<>>
             /\ \A k \in Keys \ {DEFAULT_BOWL} : ~Has(Cur.bowls)'[k] /\ ~Has(Cur.dishes)'[k] ]_vars

\* C27: "Put X into the 2nd mixing bowl." for a declared X completes, pushes
\* X's (value, kind) onto bowl 2 and leaves bowl 1 and every dish as it was.
C27_SecondBowlUsable ==
    [][ \A X \in Names :
          (Put(X, 2) /\ Cur.ings[X] # 0) =>
             /\ err' = "none"
             /\ BowlView'[2] = Append(BowlView[2], heap[Cur.ings[X]])
             /\ BowlView'[DEFAULT_BOWL] = BowlView[DEFAULT_BOWL]
             /\ DishView' = DishView ]_vars

\* C28: when the terminator of an open loop, reached after the body, names
\* an ingredient, the value of an ingredient of the recipe goes down by 1;
\* when it names none, no ingredient changes.
C28_TerminatorDecrements ==
    [][ /\ (LoopEnd(TRUE) /\ ~LineFree) =>
              \E Y \in Names :
                 /\ Cur.ings[Y] # 0 /\ IsNum(IngView[Y].v)
                 /\ IngView'[Y].v = PySub(IngView[Y].v, IntV(1))
        /\ (LoopEnd(FALSE) /\ ~LineFree) => IngView' = IngView ]_vars

\* C29: when the opening line of a loop whose terminator is line `term`
\* completes, the loop is over and the next line the driver executes is line
\* term + 1.
C29_LoopExitPosition ==
    [][ \A X \in Names, term \in 0 .. MaxLines + 1 :
          ( /\ LoopOpen(X, term)
            /\ Cur.ings[X] # 0 /\ term > Cur.pc
            /\ err' = "none" )
          => chefs'[Depth].pc = term + 1 ]_vars

\* C30: "Set aside." in the body of a loop nested in another ends the inner
\* loop only: the next line is the one after the inner terminator, inside
\* the enclosing loop, which stays open.
C30_SetAsideOneLevel ==
    [][ ( /\ SetAside
          /\ Cur.outerTerm # -1
          /\ Cur.pc > Cur.loopOpen /\ Cur.pc < Cur.loopTerm )
        => /\ chefs'[Depth].pc = Cur.loopTerm + 1
           /\ chefs'[Depth].loopTerm = Cur.outerTerm ]_vars

\* The line being executed lies in the body of the innermost open loop.
InBody == Cur.loopTerm # -1 /\ Cur.pc > Cur.loopOpen /\ Cur.pc < Cur.loopTerm

C32_RefrigerateInAuxiliary ==
    [][ /\ (Depth = 2 /\ Cur.refrigerated) => steps' = steps
        /\ (Return /\ Cur.refrigerated) =>
              /\ Len(chefs') = 1
              /\ BowlView'[DEFAULT_BOWL] =
                    View(chefs[1].bowls)[DEFAULT_BOWL] \o View(chefs[2].bowls)[DEFAULT_BOWL]
              /\ ~chefs'[1].refrigerated
              /\ chefs'[1].pc = chefs[1].pc + 1
              /\ err' = "none" /\ ~done' ]_vars

C32_Witness ==
    /\ call.phase = "returned" /\ call.fridge /\ err = "none" /\ ~done
    /\ Len(call.C) > 0 /\ ~Cur.refrigerated

\* C33: "Add X to the mixing bowl." for a declared X without a value, on a
\* bowl whose top is a number, completes and leaves every bowl and dish as
\* it was.
C33_AddAbsentIsZero ==
    [][ \A X \in Names :
          ( /\ Add(X, 0)
            /\ ~Cur.multi
            /\ Cur.ings[X] # 0 /\ heap[Cur.ings[X]].v = NoneV
            /\ BowlView[DEFAULT_BOWL] # <<>>
            /\ IsNum(BowlView[DEFAULT_BOWL][Len(BowlView[DEFAULT_BOWL])].v) )
          => (err' = "none" /\ BowlView' = BowlView /\ DishView' = DishView) ]_vars

\* The value of an ingredient as a summand of the dry ingredients.
DryVal(n) == IF IngView[n].k = "dry" THEN IngView[n].v ELSE IntV(0)
DrySum    == PyAdd(DryVal("x"), DryVal("y"))

\* C34: "Add dry ingredients [to the mixing bowl]." in a recipe whose dry
\* ingredients all have values pushes one dry element, the sum of their
\* values, onto bowl 1 and leaves the ingredients, the other bowls and the
\* dishes as they were.
C34_AddDryPushesSum ==
    [][ \A toBowl \in BOOLEAN :
          ( /\ AddDry(toBowl)
            /\ ~Cur.multi
            /\ \A n \in Names : IngView[n].k = "dry" => IsNum(IngView[n].v) )
          => /\ err' = "none"
             /\ BowlView' = [BowlView EXCEPT ![DEFAULT_BOWL] = Append(@, Cell(DrySum, "dry"))]
             /\ IngView' = IngView /\ DishView' = DishView ]_vars

\* C35: Fold, Add, Remove, Combine and Divide on an empty bowl end in an
\* error and leave the ingredients, the bowls and the dishes as they were;
\* after an error no line is executed.
C35_EmptyContainerFails ==
    [][ /\ ( /\ err' # "none"
              /\ BowlView' = BowlView /\ DishView' = DishView /\ IngView' = IngView )
           \/ \A ord \in Ords :
                 (steps' = steps + 1 /\ BowlView[OrdKey(ord)] = <<>>) =>
                    \A X \in Names :
                       ~ ( Fold(X, ord) \/ Add(X, ord) \/ Remove(X, ord)
                                        \/ Combine(X, ord) \/ Divide(X, ord) )
        /\ err # "none" => steps' = steps ]_vars

C35_Witness ==
    /\ err = "IndexError" /\ steps > 1
    /\ BowlView[DEFAULT_BOWL] = <<>>

\* C36: when serve completes for "Serves N.", every dish it printed is empty.
C36_ServeConsumes ==
    [][ \A N \in 1 .. 2 :
          (Finish(N) /\ ~Cur.refrigerated /\ err' = "none") =>
             \A i \in 1 .. (IF N > NumDishes(Cur.dishes) THEN NumDishes(Cur.dishes) ELSE N) :
                DishView'[i] = <<>> ]_vars

CountOf(s, c) == Cardinality({i \in DOMAIN s : s[i] = c})

\* C37: Chef.stir by an ingredient of value 0 leaves a non-empty bowl in the
\* order it had; by an ingredient of any value it leaves the bowl with the
\* same elements, as many times each, and the same length.
C37_RollByZero ==
    [][ \A X \in Names, ord \in Ords :
          LET bl == dicts[Cur.bowls][OrdKey(ord)]
          IN  ( /\ StirBy(X, ord)
                /\ err' = "none"
                /\ bl # 0 /\ lists[bl] # <<>> )
              => /\ PyIsZero(heap[Cur.ings[X]].v) => lists'[bl] = lists[bl]
                 /\ Len(lists'[bl]) = Len(lists[bl])
                 /\ \A c \in DOMAIN heap : CountOf(lists'[bl], c) = CountOf(lists[bl], c) ]_vars

C39_SetAsideOutsideLoop ==
    [][ (SetAside /\ Cur.loopTerm = -1) =>
          /\ err' = "none" /\ out' = out /\ ~done'
          /\ BowlView' = BowlView /\ DishView' = DishView /\ IngView' = IngView
          /\ ~chefs'[Depth].refrigerated
          /\ chefs'[Depth].pc = Cur.pc + 1 ]_vars

C39_Witness ==
    /\ done /\ err = "none" /\ steps = 3 /\ Cur.pc = 3
    /\ Len(BowlView[DEFAULT_BOWL]) = 1 /\ Len(DishView[DEFAULT_DISH]) = 1 /\ Len(out) = 1

====
